---- MODULE Spec2Model ----
(***************************************************************************)
(* A model of ClusterWorker (app/worker/cluster_worker.py): the executor   *)
(* pool, build setup and teardown, subjob execution, the heartbeat loop    *)
(* and the shutdown callbacks.  Every thread the worker starts is a task   *)
(* record with a program counter; every blocking call is a step of its own.*)
(***************************************************************************)
EXTENDS Integers, Sequences, FiniteSets, TLC

\* ---------------------------------------------------------------- bounds
NumExecutors == 2
MaxSetups == 2
MaxTeardowns == 2
MaxSubjobs == 3
MaxRequests == 4
MaxConnects == 2
MaxWorkerId == 2
MaxTicks == 4
MaxThreshold == 3

\* Python's None, for the fields that hold an integer or None.
None == -1

\* the manager numbers its builds 1, 2, ...
BuildIds == 1..MaxSetups
ExecutorIds == 0..(NumExecutors - 1)
SetupIds == 1..MaxSetups
\* teardown slot 0 is the shutdown path's invocation of the teardown body
TeardownIds == 0..MaxTeardowns
SubjobIds == 1..MaxSubjobs

VARIABLES
    is_alive,                    \* self.is_alive
    worker_id,                   \* self._worker_id
    idle_executors,              \* self._idle_executors (a FIFO queue)
    project_type,                \* self._project_type (None or the instance)
    current_build_id,            \* self._current_build_id
    build_teardown_coin,         \* self._build_teardown_coin (None or the coin)
    base_executor_index,         \* self._base_executor_index
    heartbeat_failure_count,     \* self._heartbeat_failure_count
    heartbeat_failure_threshold, \* self._heartbeat_failure_threshold
    spent_coins,                 \* the coins whose spend() has succeeded
    killed,                      \* executors on which kill() has been called
    teardown_callbacks,          \* the handler's registered teardown callbacks
    connects,                    \* number of connect_to_manager calls
    setup_calls,                 \* number of setup_build calls
    setup,                       \* the Bld-Setup threads
    teardown_calls,              \* number of accepted teardown_build calls
    teardown,                    \* the Bld-Teardwn threads (and slot 0)
    subjob_calls,                \* number of accepted start_working_on_subjob calls
    subjob,                      \* the Bld-Sub threads
    heartbeat,                   \* the heartbeat thread
    shutdown,                    \* the process: running, in its callbacks, exited
    notifications,               \* the state notifications sent to the manager, in order
    teardown_build_calls,        \* per project type, the calls of its teardown_build
    builds_reset,                \* the project types whose teardown returned and was reset
    response                     \* the outcome of the last request handler

vars == <<is_alive, worker_id, idle_executors, project_type, current_build_id,
          build_teardown_coin, base_executor_index, heartbeat_failure_count,
          heartbeat_failure_threshold, spent_coins, killed, teardown_callbacks,
          connects, setup_calls, setup, teardown_calls, teardown, subjob_calls,
          subjob, heartbeat, shutdown, notifications, teardown_build_calls,
          builds_reset, response>>

worker_vars == <<is_alive, worker_id>>
pool_vars == <<idle_executors>>
build_vars == <<project_type, current_build_id, build_teardown_coin, base_executor_index>>
hb_vars == <<heartbeat_failure_count, heartbeat_failure_threshold, heartbeat>>
call_vars == <<connects, setup_calls, teardown_calls, subjob_calls>>
seen_vars == <<notifications, teardown_build_calls, builds_reset>>

\* ------------------------------------------------------------ initial state
NoSetup == [pc |-> "unused", build |-> None, executors |-> <<>>, index |-> None,
            calls |-> <<>>]
NoTeardown == [pc |-> "unused", pt |-> None, called |-> 0, on |-> None,
               probe |-> "none"]
NoSubjob == [pc |-> "unused", build |-> None, executor |-> None, blocked |-> FALSE,
             released |-> FALSE]

\* ClusterWorker.__init__: the executors 0..num_executors-1, all idle, in order
InitialExecutors == [n \in 1..NumExecutors |-> n - 1]

InitWorker ==
    /\ is_alive = TRUE
    /\ worker_id = None
    /\ idle_executors = InitialExecutors
    /\ project_type = None
    /\ current_build_id = None
    /\ build_teardown_coin = None
    /\ base_executor_index = None
    /\ heartbeat_failure_count = 0
    /\ spent_coins = {}
    /\ killed = {}
    /\ teardown_callbacks = <<>>
    /\ connects = 0
    /\ setup_calls = 0
    /\ setup = [k \in SetupIds |-> NoSetup]
    /\ teardown_calls = 0
    /\ teardown = [t \in TeardownIds |-> NoTeardown]
    /\ subjob_calls = 0
    /\ subjob = [s \in SubjobIds |-> NoSubjob]
    /\ heartbeat = [scheduled |-> FALSE, history |-> <<>>, kills |-> {}]
    /\ shutdown = [phase |-> "running", stack |-> <<>>, probe |-> "none"]
    /\ notifications = <<>>
    /\ teardown_build_calls = [k \in SetupIds |-> 0]
    /\ builds_reset = {}
    /\ response = "none"

\* the processes stop taking steps once the process has exited
Running == shutdown.phase = "running"
Alive == shutdown.phase # "exited"
Connected == connects > 0

\* the value the request handler of this step returns; a step of a thread
\* returns nothing to the manager
SetResponse(result) == response' = result
NoResponse == response' = "none"

\* ------------------------------------------------- the shutdown coordinator
\* UnhandledExceptionHandler: an uncaught exception of a SafeThread, or
\* sys.exit, starts the teardown callbacks, once.
FatalExit(sd) ==
    IF sd.phase = "running"
    THEN [sd EXCEPT !.phase = "callbacks", !.stack = teardown_callbacks]
    ELSE sd

\* ClusterWorker.kill: sys.exit(0)
kill == shutdown' = FatalExit(shutdown)

\* UnhandledExceptionHandler.add_teardown_callback
AddTeardownCallback(stack, callback) == Append(stack, callback)

\* ---------------------------------------------------------- notifications
\* _notify_manager_of_state_change: a PUT of the new state to the manager
\* number of ProjectType.teardown_build calls begun so far
TeardownsBegun == LET sum[k \in 0..MaxSetups] ==
                        IF k = 0 THEN 0 ELSE sum[k - 1] + teardown_build_calls[k]
                  IN sum[MaxSetups]

\* the notification, with the build (the project type instance) it is sent
\* for and the number of teardowns begun before it
Notification(state, build, by) ==
    [state |-> state, build |-> build, by |-> by, teardowns |-> TeardownsBegun]

\* ------------------------------------------------------- connect_to_manager
connect_to_manager(wid) ==
    /\ Running
    /\ connects' = connects + 1
    /\ is_alive' = TRUE
    /\ worker_id' = wid
    /\ teardown_callbacks' =
         AddTeardownCallback(AddTeardownCallback(teardown_callbacks, "teardown"),
                             "disconnect")
    /\ SetResponse("ok")
    /\ UNCHANGED <<pool_vars, build_vars, hb_vars, spent_coins, killed, setup_calls,
                   setup, teardown_calls, teardown, subjob_calls, subjob, shutdown,
                   seen_vars>>

\* ------------------------------------------------------------ the heartbeat
HeartbeatOutcomes == {"ok", "http_error", "transport_error"}

\* start_heartbeat_thread, _start_heartbeat: the first tick is scheduled at once
start_heartbeat_thread ==
    /\ Running
    /\ Connected
    /\ ~heartbeat.scheduled
    /\ heartbeat.history = <<>>
    /\ heartbeat' = [heartbeat EXCEPT !.scheduled = TRUE]
    /\ UNCHANGED <<worker_vars, pool_vars, build_vars, heartbeat_failure_count,
                   heartbeat_failure_threshold, spent_coins, killed,
                   teardown_callbacks, call_vars, setup, teardown, subjob, shutdown,
                   seen_vars>>
    /\ NoResponse

\* a counter that a response does not reset
FailureCountNotReset(count, outcome) ==
    IF outcome = "transport_error" THEN count + 1 ELSE count

\* Network.post_with_digest: it raises ConnectionError or Timeout when the
\* request does not get through; an HTTP error status is a returned response.
PostWithDigestRaises(outcome) == outcome = "transport_error"

\* a handler that counts every heartbeat without a success status
FailureCountCountingHttpErrors(count, outcome) ==
    IF outcome = "ok" THEN 0 ELSE count + 1

\* _run_heartbeat lines 76-80: the counter after a tick
FailureCountAfter(count, outcome) ==
    IF PostWithDigestRaises(outcome) THEN count + 1 ELSE 0

\* _run_heartbeat lines 79-87: whether this tick calls kill()
TickKills(count, outcome, threshold) ==
    /\ PostWithDigestRaises(outcome)
    /\ FailureCountAfter(count, outcome) >= threshold

\* _run_heartbeat: one tick.  kill() raises SystemExit, so line 89 does not
\* reschedule after it.
_run_heartbeat(outcome) ==
    /\ Alive
    /\ heartbeat.scheduled
    /\ heartbeat_failure_count' = FailureCountAfter(heartbeat_failure_count, outcome)
    /\ LET dies == TickKills(heartbeat_failure_count, outcome, heartbeat_failure_threshold)
           tick == Len(heartbeat.history) + 1
       IN /\ heartbeat' = [scheduled |-> ~dies,
                           history |-> Append(heartbeat.history, outcome),
                           kills |-> IF dies THEN heartbeat.kills \cup {tick}
                                     ELSE heartbeat.kills]
          /\ IF dies THEN kill ELSE UNCHANGED shutdown
    /\ UNCHANGED <<worker_vars, pool_vars, build_vars, heartbeat_failure_threshold,
                   spent_coins, killed, teardown_callbacks, call_vars, setup,
                   teardown, subjob, seen_vars>>
    /\ NoResponse

\* -------------------------------------------------------------- setup_build
\* build_executor_start_index: no executors allocated on other workers
StartIndexes == {0}
SetupOutcomes == {"ok", "SetupFailureError"}

\* setup_build: lines 132-136 run before the idle check of line 139; the
\* project type and the coin of call number k are the instance k.
setup_build(build_id, build_executor_start_index) ==
    /\ Running
    /\ Connected
    /\ LET k == setup_calls + 1 IN
       /\ setup_calls' = k
       /\ current_build_id' = build_id
       /\ build_teardown_coin' = k
       /\ project_type' = k
       /\ IF Len(idle_executors) # NumExecutors
          THEN /\ SetResponse("RuntimeError")
               /\ UNCHANGED setup
          ELSE /\ SetResponse("ok")
               /\ setup' = [setup EXCEPT ![k] =
                     [pc |-> "fetch_project", build |-> build_id,
                      executors |-> idle_executors,
                      index |-> build_executor_start_index, calls |-> <<>>]]
    /\ UNCHANGED <<worker_vars, pool_vars, base_executor_index, hb_vars, spent_coins,
                   killed, teardown_callbacks, connects, teardown_calls, teardown,
                   subjob_calls, subjob, shutdown, seen_vars>>

\* a thread dies of an uncaught exception
Crashed(task) == [task EXCEPT !.pc = "crashed"]

\* a try block whose SetupFailureError is swallowed
AfterSetupCallsIgnoringFailure(task, returned, outcome, next_pc) ==
    [task EXCEPT !.calls = @ \o returned, !.pc = next_pc]

\* _async_setup_build lines 162-168: the thread after calls of the try block
\* have returned and the last one returned ("ok") or raised SetupFailureError
AfterSetupCalls(task, returned, outcome, next_pc) ==
    [task EXCEPT !.calls = @ \o returned,
                 !.pc = IF outcome = "ok" THEN next_pc ELSE "notify_failed"]

\* the configure_project_type calls of the first n executors of the snapshot
ConfigureCalls(executors, n) ==
    [j \in 1..n |-> <<"configure_project_type", executors[j]>>]

\* _async_setup_build lines 161-165: self._project_type.fetch_project(), then
\* the loop over the snapshot, which touches no field of the worker.  The
\* call number `failing` of the 1 + len(executors) calls raises
\* SetupFailureError (none does when failing = 0).
AsyncSetupFetchAndConfigure(k, failing) ==
    /\ Alive
    /\ setup[k].pc = "fetch_project"
    /\ failing \in 0..(1 + Len(setup[k].executors))
    /\ base_executor_index' = setup[k].index
    /\ IF project_type = None
       THEN /\ setup' = [setup EXCEPT ![k] = Crashed(@)]
            /\ shutdown' = FatalExit(shutdown)
       ELSE /\ LET executors == setup[k].executors
                   fetched == <<<<"fetch_project", project_type>>>>
                   returned ==
                       IF failing = 0 THEN fetched \o ConfigureCalls(executors, Len(executors))
                       ELSE IF failing = 1 THEN <<>>
                       ELSE fetched \o ConfigureCalls(executors, failing - 2)
               IN setup' = [setup EXCEPT ![k] =
                      AfterSetupCalls(@, returned,
                                      IF failing = 0 THEN "ok" ELSE "SetupFailureError",
                                      "run_job_config_setup")]
            /\ UNCHANGED shutdown
    /\ UNCHANGED <<worker_vars, pool_vars, project_type, current_build_id,
                   build_teardown_coin, hb_vars, spent_coins, killed,
                   teardown_callbacks, call_vars, teardown, subjob, seen_vars>>
    /\ NoResponse

\* _async_setup_build line 166: self._project_type.run_job_config_setup()
AsyncSetupRunJobConfigSetup(k, outcome) ==
    /\ Alive
    /\ setup[k].pc = "run_job_config_setup"
    /\ IF project_type = None
       THEN /\ setup' = [setup EXCEPT ![k] = Crashed(@)]
            /\ shutdown' = FatalExit(shutdown)
       ELSE /\ setup' = [setup EXCEPT ![k] =
                 AfterSetupCalls(@, IF outcome = "ok"
                                    THEN <<<<"run_job_config_setup", project_type>>>>
                                    ELSE <<>>,
                                 outcome, "notify_completed")]
            /\ UNCHANGED shutdown
    /\ UNCHANGED <<worker_vars, pool_vars, build_vars, hb_vars, spent_coins, killed,
                   teardown_callbacks, call_vars, teardown, subjob, seen_vars>>
    /\ NoResponse

\* _async_setup_build lines 168-175: the state the thread reports
SetupStateToNotify(pc) ==
    IF pc = "notify_failed" THEN "SETUP_FAILED" ELSE "SETUP_COMPLETE"

\* _async_setup_build lines 171, 175
AsyncSetupNotify(k) ==
    /\ Alive
    /\ setup[k].pc \in {"notify_failed", "notify_completed"}
    /\ notifications' =
         Append(notifications, Notification(SetupStateToNotify(setup[k].pc), k, "setup"))
    /\ UNCHANGED <<teardown_build_calls, builds_reset>>
    /\ setup' = [setup EXCEPT ![k].pc = "done"]
    /\ UNCHANGED <<worker_vars, pool_vars, build_vars, hb_vars, spent_coins, killed,
                   teardown_callbacks, call_vars, teardown, subjob, shutdown>>
    /\ NoResponse

\* ----------------------------------------------------------- teardown_build
\* who runs the teardown body: the shutdown path (slot 0) or a Bld-Teardwn thread
Invoker(t) == IF t = 0 THEN "shutdown" ELSE "teardown"

\* teardown_build lines 185-194
teardown_build(build_id) ==
    /\ Running
    /\ Connected
    /\ IF \/ current_build_id = None
          \/ (build_id # None /\ build_id # current_build_id)
       THEN /\ SetResponse("BadRequestError")
            /\ UNCHANGED <<teardown_calls, teardown>>
       ELSE /\ SetResponse("ok")
            /\ teardown_calls' = teardown_calls + 1
            /\ teardown' = [teardown EXCEPT ![teardown_calls + 1] =
                  [pc |-> "kill_executors", pt |-> project_type, called |-> 0,
                   on |-> None, probe |-> "none"]]
    /\ UNCHANGED <<worker_vars, pool_vars, build_vars, hb_vars, spent_coins, killed,
                   teardown_callbacks, connects, setup_calls, setup, subjob_calls,
                   subjob, shutdown, seen_vars>>

\* SingleUseCoin.spend: true for the first caller only
CoinSpendSucceeds(coin) == coin \notin spent_coins

\* a gate that does not ask the coin
TeardownGateIgnoringCoin == project_type # None

\* _do_build_teardown_and_reset line 219: whether the body goes on to the
\* teardown ("not coin or not coin.spend() or not project_type" is false)
TeardownGateOpen ==
    /\ build_teardown_coin # None
    /\ CoinSpendSucceeds(build_teardown_coin)
    /\ project_type # None

\* a thread that ends with the teardown body
EndsWithTeardownBody(t) == "done"

\* where the invoker goes when the teardown body returns
AfterTeardownBody(t) == IF t = 0 THEN "done" ELSE "wait_idle_executors"

\* _do_build_teardown_and_reset lines 215-220: kill every executor, then the
\* gate; the coin is spent whenever it exists, whatever the project type
DoBuildTeardownKillAndGate(t) ==
    /\ Alive
    /\ teardown[t].pc = "kill_executors"
    /\ killed' = ExecutorIds
    /\ spent_coins' = IF build_teardown_coin # None
                      THEN spent_coins \cup {build_teardown_coin}
                      ELSE spent_coins
    /\ teardown' = [teardown EXCEPT ![t].pc =
          IF TeardownGateOpen THEN "teardown_build" ELSE AfterTeardownBody(t)]
    /\ UNCHANGED <<worker_vars, pool_vars, build_vars, hb_vars, teardown_callbacks,
                   call_vars, setup, subjob, shutdown, seen_vars>>
    /\ NoResponse

\* an exception in the teardown body: a thread dies of it, the shutdown
\* path's callback is guarded and the path goes on
TeardownBodyRaises(t) ==
    /\ teardown' = [teardown EXCEPT ![t].pc = IF t = 0 THEN "done" ELSE "crashed"]
    /\ shutdown' = IF t = 0 THEN shutdown ELSE FatalExit(shutdown)

\* _do_build_teardown_and_reset line 224: the call begins on the project
\* type the field holds now
DoBuildTeardownCall(t) ==
    /\ Alive
    /\ teardown[t].pc = "teardown_build"
    /\ IF project_type = None
       THEN /\ TeardownBodyRaises(t)
            /\ UNCHANGED teardown_build_calls
       ELSE /\ teardown' = [teardown EXCEPT ![t].pc = "in_teardown_build",
                                            ![t].called = @ + 1,
                                            ![t].on = project_type]
            /\ teardown_build_calls' =
                  [teardown_build_calls EXCEPT ![project_type] = @ + 1]
            /\ UNCHANGED shutdown
    /\ UNCHANGED <<notifications, builds_reset>>
    /\ UNCHANGED <<worker_vars, pool_vars, build_vars, hb_vars, spent_coins, killed,
                   teardown_callbacks, call_vars, setup, subjob>>
    /\ NoResponse

\* _do_build_teardown_and_reset lines 224-228: the call returns, for the
\* project type it was made on, and the current-build fields are cleared
DoBuildTeardownReturnAndReset(t) ==
    /\ Alive
    /\ teardown[t].pc = "in_teardown_build"
    /\ current_build_id' = None
    /\ project_type' = None
    /\ base_executor_index' = None
    /\ teardown' = [teardown EXCEPT ![t].pc = AfterTeardownBody(t)]
    /\ builds_reset' = builds_reset \cup {teardown[t].on}
    /\ UNCHANGED <<worker_vars, pool_vars, build_teardown_coin, hb_vars, spent_coins,
                   killed, teardown_callbacks, call_vars, setup, subjob, shutdown,
                   notifications, teardown_build_calls>>
    /\ NoResponse

\* _async_teardown_build lines 202-203: leave the loop once the queue is full
AsyncTeardownWaitIdle(t) ==
    /\ Alive
    /\ t # 0
    /\ teardown[t].pc = "wait_idle_executors"
    /\ Len(idle_executors) = NumExecutors
    /\ teardown' = [teardown EXCEPT ![t].pc = "notify_idle"]
    /\ UNCHANGED <<worker_vars, pool_vars, build_vars, hb_vars, spent_coins, killed,
                   teardown_callbacks, call_vars, setup, subjob, shutdown, seen_vars>>
    /\ NoResponse

\* _send_manager_idle_notification: the probe of _is_manager_responsive,
\* then the IDLE notification if the manager answered
SendManagerIdleNotification(t, responsive) ==
    /\ Alive
    /\ t # 0
    /\ teardown[t].pc = "notify_idle"
    /\ notifications' =
         IF responsive
         THEN Append(notifications, Notification("IDLE", teardown[t].pt, "teardown"))
         ELSE notifications
    /\ UNCHANGED <<teardown_build_calls, builds_reset>>
    /\ teardown' = [teardown EXCEPT ![t].pc = "done",
                                    ![t].probe = IF responsive THEN "responsive"
                                                 ELSE "unresponsive"]
    /\ UNCHANGED <<worker_vars, pool_vars, build_vars, hb_vars, spent_coins, killed,
                   teardown_callbacks, call_vars, setup, subjob, shutdown>>
    /\ NoResponse

\* -------------------------------------------------- start_working_on_subjob
\* a handler that takes an executor from the queue before it checks the build id
start_working_on_subjob_acquiring_first(build_id) ==
    /\ Running
    /\ Connected
    /\ idle_executors # <<>>
    /\ idle_executors' = Tail(idle_executors)
    /\ IF build_id # current_build_id
       THEN /\ SetResponse("BadRequestError")
            /\ UNCHANGED <<subjob_calls, subjob>>
       ELSE /\ SetResponse("ok")
            /\ subjob_calls' = subjob_calls + 1
            /\ subjob' = [subjob EXCEPT ![subjob_calls + 1] =
                  [pc |-> "execute_subjob", build |-> build_id,
                   executor |-> Head(idle_executors), blocked |-> FALSE,
                   released |-> FALSE]]
    /\ UNCHANGED <<worker_vars, build_vars, hb_vars, spent_coins, killed,
                   teardown_callbacks, connects, setup_calls, setup, teardown_calls,
                   teardown, shutdown, seen_vars>>

\* start_working_on_subjob lines 308-310: the build id check; the handler
\* then waits in Queue.get(), blocked if the queue is empty when it gets there
start_working_on_subjob(build_id) ==
    /\ Running
    /\ Connected
    /\ IF build_id # current_build_id
       THEN /\ SetResponse("BadRequestError")
            /\ UNCHANGED <<subjob_calls, subjob>>
       ELSE /\ SetResponse("waiting")
            /\ subjob_calls' = subjob_calls + 1
            /\ subjob' = [subjob EXCEPT ![subjob_calls + 1] =
                  [pc |-> "get_executor", build |-> build_id, executor |-> None,
                   blocked |-> idle_executors = <<>>, released |-> FALSE]]
    /\ UNCHANGED <<worker_vars, pool_vars, build_vars, hb_vars, spent_coins, killed,
                   teardown_callbacks, connects, setup_calls, setup, teardown_calls,
                   teardown, shutdown, seen_vars>>

\* a get() that hands out the first executor of the worker, idle or not
FirstExecutor(queue) == 0

\* Queue.get(): the executor at the head of the queue
NextIdleExecutor(queue) == Head(queue)

\* a put that is left for after the upload
QueuePutDeferred(queue, executor) == queue

\* Queue.put(executor)
QueuePut(queue, executor) == Append(queue, executor)

\* start_working_on_subjob lines 313-324: Queue.get() returns the head of
\* the queue, the thread starts and the handler answers with the executor id
StartSubjobGetExecutor(s) ==
    /\ Alive
    /\ subjob[s].pc = "get_executor"
    /\ idle_executors # <<>>
    /\ idle_executors' = Tail(idle_executors)
    /\ subjob' = [subjob EXCEPT ![s].pc = "execute_subjob",
                                ![s].executor = NextIdleExecutor(idle_executors)]
    /\ SetResponse("ok")
    /\ UNCHANGED <<worker_vars, build_vars, hb_vars, spent_coins, killed,
                   teardown_callbacks, call_vars, setup, teardown, shutdown, seen_vars>>

SubjobOutcomes == {"ok", "raises"}

\* _execute_subjob lines 339-349: execute_subjob returns and the executor is
\* put back; an exception before line 349 ends the thread without the put
ExecuteSubjobEnds(s, outcome) ==
    /\ Alive
    /\ subjob[s].pc = "execute_subjob"
    /\ IF outcome = "ok"
       THEN /\ idle_executors' = QueuePut(idle_executors, subjob[s].executor)
            /\ subjob' = [subjob EXCEPT ![s].pc = "post_results",
                                        ![s].released = TRUE]
            /\ UNCHANGED shutdown
       ELSE /\ subjob' = [subjob EXCEPT ![s] = Crashed(@)]
            /\ shutdown' = FatalExit(shutdown)
            /\ UNCHANGED idle_executors
    /\ UNCHANGED <<worker_vars, build_vars, hb_vars, spent_coins, killed,
                   teardown_callbacks, call_vars, setup, teardown, seen_vars>>
    /\ NoResponse

\* _execute_subjob lines 350-356: the upload answers (ok or not, both only
\* logged) or raises
ExecuteSubjobPostResults(s, outcome) ==
    /\ Alive
    /\ subjob[s].pc = "post_results"
    /\ IF outcome = "ok"
       THEN /\ subjob' = [subjob EXCEPT ![s].pc = "done"]
            /\ UNCHANGED shutdown
       ELSE /\ subjob' = [subjob EXCEPT ![s] = Crashed(@)]
            /\ shutdown' = FatalExit(shutdown)
    /\ UNCHANGED <<worker_vars, pool_vars, build_vars, hb_vars, spent_coins, killed,
                   teardown_callbacks, call_vars, setup, teardown, seen_vars>>
    /\ NoResponse

\* ------------------------------------------------------ the shutdown path
\* the teardown body of slot 0 is not in progress
ShutdownPathFree == teardown[0].pc \in {"unused", "done"}

\* a disconnect that gives up before its bookkeeping when the probe fails
DisconnectOnlyWhenResponsive(responsive) ==
    /\ is_alive' = IF responsive THEN FALSE ELSE is_alive
    /\ notifications' =
         IF responsive
         THEN Append(notifications, Notification("DISCONNECTED", None, "shutdown"))
         ELSE notifications

\* _is_manager_responsive lines 289-295: the answer of the probe
ProbeResult(responsive) == IF responsive THEN "responsive" ELSE "unresponsive"

\* _disconnect_from_manager, run as a teardown callback
DisconnectFromManager(responsive) ==
    /\ is_alive' = FALSE
    /\ notifications' =
         IF responsive
         THEN Append(notifications, Notification("DISCONNECTED", None, "shutdown"))
         ELSE notifications

\* UnhandledExceptionHandler: the callbacks run last registered first
ShutdownRunCallback(responsive) ==
    /\ shutdown.phase = "callbacks"
    /\ shutdown.stack # <<>>
    /\ ShutdownPathFree
    /\ LET n == Len(shutdown.stack)
           callback == shutdown.stack[n]
       IN /\ shutdown' = [shutdown EXCEPT
                             !.stack = SubSeq(@, 1, n - 1),
                             !.probe = IF callback = "disconnect"
                                       THEN ProbeResult(responsive) ELSE @]
          /\ IF callback = "disconnect"
             THEN /\ DisconnectFromManager(responsive)
                  /\ UNCHANGED teardown
             ELSE /\ responsive
                  /\ teardown' = [teardown EXCEPT ![0].pc = "kill_executors",
                                                  ![0].pt = project_type]
                  /\ UNCHANGED <<is_alive, notifications>>
    /\ UNCHANGED <<worker_id, pool_vars, build_vars, hb_vars, spent_coins, killed,
                   teardown_callbacks, call_vars, setup, subjob, teardown_build_calls,
                   builds_reset>>
    /\ NoResponse

\* UnhandledExceptionHandler: the process exits after the last callback
ShutdownExit ==
    /\ shutdown.phase = "callbacks"
    /\ shutdown.stack = <<>>
    /\ ShutdownPathFree
    /\ shutdown' = [shutdown EXCEPT !.phase = "exited"]
    /\ UNCHANGED <<worker_vars, pool_vars, build_vars, hb_vars, spent_coins, killed,
                   teardown_callbacks, call_vars, setup, teardown, subjob, seen_vars>>
    /\ NoResponse

\* ------------------------------------------------------------ specification
\* The manager's requests, bounded in number.
ManagerRequests ==
    \/ /\ setup_calls < MaxSetups
       /\ \E idx \in StartIndexes : setup_build(setup_calls + 1, idx)
    \/ /\ teardown_calls < MaxTeardowns
       /\ \E b \in BuildIds \cup {None} : teardown_build(b)
    \/ /\ subjob_calls < MaxSubjobs
       /\ \E b \in BuildIds : start_working_on_subjob(b)

SetupThreads ==
    \/ \E k \in SetupIds, failing \in 0..(1 + NumExecutors) : AsyncSetupFetchAndConfigure(k, failing)
    \/ \E k \in SetupIds, outcome \in SetupOutcomes : AsyncSetupRunJobConfigSetup(k, outcome)
    \/ \E k \in SetupIds : AsyncSetupNotify(k)

\* _do_build_teardown_and_reset, run by invoker t
DoBuildTeardownAndReset(t) ==
    \/ DoBuildTeardownKillAndGate(t)
    \/ DoBuildTeardownCall(t)
    \/ DoBuildTeardownReturnAndReset(t)

TeardownThreads ==
    \/ \E t \in 1..MaxTeardowns : DoBuildTeardownAndReset(t)
    \/ \E t \in 1..MaxTeardowns : AsyncTeardownWaitIdle(t)
    \/ \E t \in 1..MaxTeardowns, responsive \in BOOLEAN :
          SendManagerIdleNotification(t, responsive)

SubjobThreads ==
    \/ \E s \in SubjobIds : StartSubjobGetExecutor(s)
    \/ \E s \in SubjobIds, outcome \in SubjobOutcomes : ExecuteSubjobEnds(s, outcome)
    \/ \E s \in SubjobIds, outcome \in SubjobOutcomes : ExecuteSubjobPostResults(s, outcome)

ShutdownPath ==
    \/ \E responsive \in BOOLEAN : ShutdownRunCallback(responsive)
    \/ DoBuildTeardownAndReset(0)
    \/ ShutdownExit

HeartbeatThread ==
    \/ start_heartbeat_thread
    \/ /\ Len(heartbeat.history) < MaxTicks
       /\ \E outcome \in HeartbeatOutcomes : _run_heartbeat(outcome)

\* Builds and subjobs of a worker that has registered once: the manager
\* sends up to MaxRequests requests that the worker accepts.  An uncaught
\* exception of a thread starts the shutdown, whose callbacks SpecShutdown
\* follows.
Init ==
    /\ InitWorker
    /\ heartbeat_failure_threshold = MaxThreshold

Next ==
    \/ connects < 1 /\ connect_to_manager(1)
    \/ (setup_calls + teardown_calls + subjob_calls < MaxRequests /\ ManagerRequests)
    \/ SetupThreads
    \/ TeardownThreads
    \/ SubjobThreads

Spec == Init /\ [][Next]_vars

\* The life of the process: registration (possibly repeated), the heartbeat
\* loop, one build, and the shutdown callbacks after kill() or a crash.
NextShutdown ==
    \/ connects < MaxConnects /\ \E wid \in 1..MaxWorkerId : connect_to_manager(wid)
    \/ HeartbeatThread
    \/ setup_calls < 1 /\ \E idx \in StartIndexes : setup_build(setup_calls + 1, idx)
    \/ teardown_calls < 1 /\ \E b \in BuildIds \cup {None} : teardown_build(b)
    \/ SetupThreads
    \/ TeardownThreads
    \/ ShutdownPath

SpecShutdown == Init /\ [][NextShutdown]_vars

\* The heartbeat loop alone, which is the only writer of its counter, for
\* every configured threshold, up to the kill() that ends it.
InitHeartbeat ==
    /\ InitWorker
    /\ heartbeat_failure_threshold \in 1..MaxThreshold

NextHeartbeat ==
    \/ connects < 1 /\ connect_to_manager(1)
    \/ HeartbeatThread

SpecHeartbeat == InitHeartbeat /\ [][NextHeartbeat]_vars

\* Two build setups, with a teardown that clears the project type under them.
NextSetup ==
    \/ connects < 1 /\ connect_to_manager(1)
    \/ setup_calls < 2 /\ \E idx \in StartIndexes : setup_build(setup_calls + 1, idx)
    \/ teardown_calls < 1 /\ \E b \in BuildIds \cup {None} : teardown_build(b)
    \/ SetupThreads
    \/ TeardownThreads

SpecSetup == Init /\ [][NextSetup]_vars

\* The death of a worker that has registered once and may hold a build:
\* the heartbeat gives up and the shutdown callbacks run.
NextDisconnect ==
    \/ connects < 1 /\ connect_to_manager(1)
    \/ HeartbeatThread
    \/ setup_calls < 1 /\ \E idx \in StartIndexes : setup_build(setup_calls + 1, idx)
    \/ SetupThreads
    \/ ShutdownPath

SpecDisconnect == Init /\ [][NextDisconnect]_vars

\* The subjobs of one build: more requests than executors.
NextSubjob ==
    \/ connects < 1 /\ connect_to_manager(1)
    \/ setup_calls < 1 /\ \E idx \in StartIndexes : setup_build(setup_calls + 1, idx)
    \/ subjob_calls < MaxSubjobs /\ \E b \in BuildIds : start_working_on_subjob(b)
    \/ SetupThreads
    \/ SubjobThreads

SpecSubjob == Init /\ [][NextSubjob]_vars

\* The teardowns of one build, asked for again and again, with a subjob of
\* the build in flight.
NextTeardown ==
    \/ connects < 1 /\ connect_to_manager(1)
    \/ setup_calls < 1 /\ \E idx \in StartIndexes : setup_build(setup_calls + 1, idx)
    \/ subjob_calls < 1 /\ \E b \in BuildIds : start_working_on_subjob(b)
    \/ teardown_calls < MaxTeardowns /\ \E b \in BuildIds \cup {None} : teardown_build(b)
    \/ SetupThreads
    \/ SubjobThreads
    \/ TeardownThreads

SpecTeardown == Init /\ [][NextTeardown]_vars

\* the teardown threads when the manager answers every probe
TeardownThreadsResponsive ==
    \/ \E t \in 1..MaxTeardowns : DoBuildTeardownAndReset(t)
    \/ \E t \in 1..MaxTeardowns : AsyncTeardownWaitIdle(t)
    \/ \E t \in 1..MaxTeardowns : SendManagerIdleNotification(t, TRUE)

\* One build and its teardowns under a responsive manager, every started
\* thread being scheduled until it ends; the manager's requests are not forced.
NextRecovery ==
    \/ connects < 1 /\ connect_to_manager(1)
    \/ setup_calls < 1 /\ \E idx \in StartIndexes : setup_build(setup_calls + 1, idx)
    \/ teardown_calls < MaxTeardowns /\ \E b \in BuildIds \cup {None} : teardown_build(b)
    \/ SetupThreads
    \/ TeardownThreadsResponsive

SpecRecovery ==
    /\ Init
    /\ [][NextRecovery]_vars
    /\ WF_vars(SetupThreads)
    /\ WF_vars(TeardownThreadsResponsive)

\* ------------------------------------------------------------- properties
\* the subjob threads that hold an executor: between Queue.get() and put()
ExecutorsInUse == {s \in SubjobIds : subjob[s].pc = "execute_subjob"}

\* how many times executor e is in the idle queue
TimesIdle(e) == Cardinality({n \in 1..Len(idle_executors) : idle_executors[n] = e})

\* how many in-flight subjobs run on executor e
TimesInUse(e) == Cardinality({s \in ExecutorsInUse : subjob[s].executor = e})

\* C1: the idle executors and the in-flight subjobs add up to num_executors,
\* and every executor is either idle or in use by one subjob: none is lost
\* and none is duplicated.
ExecutorsConserved ==
    /\ Len(idle_executors) + Cardinality(ExecutorsInUse) = NumExecutors
    /\ \A e \in ExecutorIds : TimesIdle(e) + TimesInUse(e) = 1

\* the step is a call of setup_build
IsSetupBuildCall == setup_calls' = setup_calls + 1

\* C2: a setup_build that arrives while a build is active, or while an
\* executor is not idle, is answered with an error and changes neither the
\* current build id, the project type, the teardown coin nor the base
\* executor index, and starts no setup thread.
SetupBuildRejectsWithoutMutation ==
    [][(IsSetupBuildCall /\ (current_build_id # None \/ Len(idle_executors) # NumExecutors))
          => /\ response' \in {"RuntimeError", "BadRequestError"}
             /\ UNCHANGED <<current_build_id, project_type, build_teardown_coin,
                            base_executor_index, setup>>]_vars

\* C3: ProjectType.teardown_build is called at most once on the project type
\* of a build, whoever asks for the teardown (requests, the shutdown path).
TeardownBuildAtMostOncePerBuild ==
    \A k \in SetupIds : teardown_build_calls[k] <= 1

\* the step sends the notification `state`
Sends(state) ==
    /\ Len(notifications') = Len(notifications) + 1
    /\ notifications'[Len(notifications')].state = state

\* C4: an IDLE notification is sent only when the teardown of the build has
\* returned, the current-build fields are cleared and every executor is idle,
\* also when several teardown threads run at once.
IdleOnlyAfterTeardownAndPoolFull ==
    [][\A t \in 1..MaxTeardowns :
          (teardown[t].pc = "notify_idle" /\ teardown'[t].pc = "done" /\ Sends("IDLE"))
             => /\ teardown[t].pt \in builds_reset
                /\ current_build_id = None
                /\ project_type = None
                /\ Len(idle_executors) = NumExecutors]_vars

\* the IDLE notifications sent for build k
IdleNotifications(k) ==
    {n \in 1..Len(notifications) :
        notifications[n].state = "IDLE" /\ notifications[n].build = k}

\* the teardown threads of build k that have finished, having found the
\* manager responsive
TeardownsAnswered(k) ==
    {t \in 1..MaxTeardowns :
        teardown[t].pt = k /\ teardown[t].pc = "done" /\ teardown[t].probe = "responsive"}

\* C5: when two teardown requests for the same build have both been accepted
\* and have both finished, with the manager responsive, exactly one IDLE
\* notification has been sent for the build.
RacingTeardownsSendOneIdle ==
    \A k \in SetupIds :
        Cardinality(TeardownsAnswered(k)) = 2 => Cardinality(IdleNotifications(k)) = 1

\* the calls a setup thread makes on the way to SETUP_COMPLETE: fetch_project,
\* configure_project_type on every executor of the snapshot in its order,
\* run_job_config_setup
IsCompleteSetup(task) ==
    /\ Len(task.executors) = NumExecutors
    /\ {task.executors[j] : j \in 1..Len(task.executors)} = ExecutorIds
    /\ Len(task.calls) = NumExecutors + 2
    /\ task.calls[1][1] = "fetch_project"
    /\ \A j \in 1..NumExecutors :
          task.calls[1 + j] = <<"configure_project_type", task.executors[j]>>
    /\ task.calls[NumExecutors + 2][1] = "run_job_config_setup"

\* C6: SETUP_COMPLETE is sent, or about to be sent, for a build only after
\* fetch_project, configure_project_type on every executor and
\* run_job_config_setup have all returned without SetupFailureError, in
\* that order.
SetupCompleteOnlyAfterAllSetupCalls ==
    /\ \A k \in SetupIds : setup[k].pc = "notify_completed" => IsCompleteSetup(setup[k])
    /\ \A n \in 1..Len(notifications) :
          notifications[n].state = "SETUP_COMPLETE"
             => /\ setup[notifications[n].build].pc = "done"
                /\ IsCompleteSetup(setup[notifications[n].build])

\* C6 is exercised: a SETUP_COMPLETE has been sent after a full setup
SetupCompleteSent ==
    \E n \in 1..Len(notifications) :
       /\ notifications[n].state = "SETUP_COMPLETE"
       /\ IsCompleteSetup(setup[notifications[n].build])

\* C7: after a SETUP_FAILED has been sent, no SETUP_COMPLETE is sent unless a
\* teardown has run in between, whatever setup_build calls arrive meanwhile.
NoSetupCompleteAfterSetupFailedWithoutTeardown ==
    \A m, n \in 1..Len(notifications) :
       (m < n /\ notifications[m].state = "SETUP_FAILED"
              /\ notifications[n].state = "SETUP_COMPLETE")
          => notifications[n].teardowns > notifications[m].teardowns

\* C8: the IDLE notification of a build never precedes the SETUP_COMPLETE or
\* SETUP_FAILED notification of the same build.
IdleNeverPrecedesSetupNotification ==
    \A m, n \in 1..Len(notifications) :
       (m < n /\ notifications[m].state = "IDLE"
              /\ notifications[n].state \in {"SETUP_COMPLETE", "SETUP_FAILED"})
          => notifications[m].build # notifications[n].build

\* the number of transport failures at the end of a heartbeat history
RECURSIVE TrailingFailures(_)
TrailingFailures(history) ==
    IF history = <<>> THEN 0
    ELSE IF history[Len(history)] # "transport_error" THEN 0
    ELSE 1 + TrailingFailures(SubSeq(history, 1, Len(history) - 1))

\* C9: the heartbeat failure counter is 0 after a heartbeat that got a
\* response and otherwise the number of consecutive transport failures since
\* then, and a tick calls kill() exactly when its failure brings the counter
\* to the threshold.
HeartbeatCounterAndKill ==
    /\ heartbeat_failure_count = TrailingFailures(heartbeat.history)
    /\ \A n \in 1..Len(heartbeat.history) :
          n \in heartbeat.kills
             <=> /\ heartbeat.history[n] = "transport_error"
                 /\ TrailingFailures(SubSeq(heartbeat.history, 1, n))
                       = heartbeat_failure_threshold

\* C9 is exercised: failures, a success that resets the counter, then the
\* run of failures that reaches a threshold above one and kills
HeartbeatKilledAfterReset ==
    /\ heartbeat_failure_threshold > 1
    /\ heartbeat.kills # {}
    /\ \E m, n \in 1..Len(heartbeat.history) :
          /\ m < n
          /\ heartbeat.history[m] = "transport_error"
          /\ heartbeat.history[n] = "ok"

\* C10: on the shutdown path the worker is marked not alive, and every
\* DISCONNECTED notification is sent, before the shutdown path calls
\* ProjectType.teardown_build.
DisconnectBeforeShutdownTeardown ==
    [][/\ teardown'[0].called > teardown[0].called => ~is_alive
       /\ Sends("DISCONNECTED") => teardown[0].called = 0]_vars

\* C11: once connect_to_manager has set the worker id no later step changes
\* it, a repeated connect_to_manager included, and the two shutdown
\* callbacks are registered only once.
WorkerIdAssignedOnce ==
    [][/\ worker_id # None => worker_id' = worker_id
       /\ teardown_callbacks # <<>> => teardown_callbacks' = teardown_callbacks]_vars

\* the builds whose setup_build was accepted (a setup thread was started)
AcceptedBuilds == {k \in SetupIds : setup[k].pc # "unused"}

\* the build context replaces the previous one: the build awaiting its
\* teardown is the last accepted one, until its teardown body has completed
BuildAwaitingTeardown ==
    /\ AcceptedBuilds # {}
    /\ (CHOOSE k \in AcceptedBuilds : \A j \in AcceptedBuilds : j <= k) \notin builds_reset

\* C12: current_build_id is non-null exactly from the acceptance of a
\* setup_build until the teardown body of that build completes, and no
\* teardown thread is started by a request that finds it null.
CurrentBuildIdSetWhileBuildActive ==
    [][/\ (current_build_id' # None) <=> BuildAwaitingTeardown'
       /\ current_build_id = None
             => /\ teardown_calls' = teardown_calls
                /\ \A t \in 1..MaxTeardowns :
                      teardown[t].pc = "unused" => teardown'[t].pc = "unused"]_vars

\* the subjob threads whose execute_subjob call has ended, by returning or
\* by raising
SubjobsEnded == {s \in SubjobIds : subjob[s].pc \in {"post_results", "done", "crashed"}}

\* C13: every accepted start_working_on_subjob takes one executor from the
\* pool and its thread puts that executor back once its execute_subjob call
\* has ended, however the call ended.
EverySubjobReleasesItsExecutor ==
    \A s \in SubjobsEnded :
       /\ subjob[s].executor \in ExecutorIds
       /\ subjob[s].released

\* C14: a request answered with BadRequestError (teardown_build with no
\* current build or with another build's id, start_working_on_subjob with
\* another build's id) changes nothing: no executor is taken or killed, the
\* current-build fields and the coin stay, no ProjectType call is made, no
\* thread is started and nothing is sent.
RejectedRequestChangesNothing ==
    [][response' = "BadRequestError"
          => UNCHANGED <<is_alive, worker_id, idle_executors, project_type,
                         current_build_id, build_teardown_coin, base_executor_index,
                         spent_coins, killed, setup, teardown_calls, teardown,
                         subjob_calls, subjob, shutdown, teardown_callbacks,
                         notifications, teardown_build_calls, builds_reset>>]_vars

\* C14 is exercised: a request has just been rejected while a build is
\* current and a subjob holds an executor
RequestRejectedDuringBuild ==
    /\ response = "BadRequestError"
    /\ current_build_id # None
    /\ ExecutorsInUse # {}

\* the step admits the waiting subjob s: its handler returns an executor id
Admits(s) == subjob[s].pc = "get_executor" /\ subjob'[s].pc = "execute_subjob"

\* the subjobs that have put their executor back
SubjobsReleased == {s \in SubjobIds : subjob[s].released}

\* C15: at most num_executors subjobs are in flight, on different
\* executors; a start_working_on_subjob is admitted only by taking the
\* executor at the head of a non-empty idle queue, and one that found the
\* queue empty is admitted with an executor that a subjob has released.
SubjobsAdmittedWithIdleExecutors ==
    [][/\ Cardinality(ExecutorsInUse') <= NumExecutors
       /\ \A s, t \in ExecutorsInUse' : s # t => subjob'[s].executor # subjob'[t].executor
       /\ \A s \in SubjobIds :
             Admits(s)
                => /\ idle_executors # <<>>
                   /\ subjob'[s].executor = Head(idle_executors)
                   /\ idle_executors' = Tail(idle_executors)
                   /\ response' = "ok"
                   /\ subjob[s].blocked
                         => \E t \in SubjobsReleased : subjob[t].executor = subjob'[s].executor]_vars

\* C15 is exercised: a subjob that found the idle queue empty runs on an
\* executor that another subjob released
BlockedSubjobAdmitted ==
    \E s \in ExecutorsInUse :
       /\ subjob[s].blocked
       /\ \E t \in SubjobsReleased : t # s /\ subjob[t].executor = subjob[s].executor

\* the step is the upload of subjob s ending, by an answer or an exception
UploadEnds(s) == subjob[s].pc = "post_results" /\ subjob'[s].pc # "post_results"

\* C17: the subjob thread puts its executor back into the idle queue before
\* the upload of the results begins, and the upload, however it ends and
\* however long it takes, does not touch the queue.
ExecutorIdleBeforeUpload ==
    [][\A s \in SubjobIds :
          /\ (subjob[s].pc # "post_results" /\ subjob'[s].pc = "post_results")
                => idle_executors' = Append(idle_executors, subjob[s].executor)
          /\ UploadEnds(s) => idle_executors' = idle_executors]_vars

\* C17 is exercised: while the upload of one subjob is still pending, its
\* executor already runs a subjob that had found the idle queue empty
ExecutorReusedDuringUpload ==
    \E s, t \in SubjobIds :
       /\ subjob[s].pc = "post_results"
       /\ subjob[t].pc = "execute_subjob"
       /\ subjob[t].blocked
       /\ subjob[t].executor = subjob[s].executor

\* the step is invoker t passing line 219 of the teardown body
PassesGate(t) == teardown[t].pc = "kill_executors" /\ teardown'[t].pc # "kill_executors"

\* the teardown body has already run for the current build, or there is no
\* build to tear down
TeardownAlreadyRunOrNoBuild ==
    \/ build_teardown_coin = None
    \/ build_teardown_coin \in spent_coins
    \/ project_type = None

\* C16: the teardown body invoked again after it has run for the build, or
\* with no build active, returns at line 220: it makes no call of
\* ProjectType.teardown_build and leaves current_build_id, project_type and
\* base_executor_index as they were.
RepeatedTeardownBodyDoesNothing ==
    [][\A t \in TeardownIds :
          (PassesGate(t) /\ TeardownAlreadyRunOrNoBuild)
             => /\ teardown'[t].pc = AfterTeardownBody(t)
                /\ teardown'[t].called = teardown[t].called
                /\ UNCHANGED <<current_build_id, project_type, base_executor_index,
                               teardown_build_calls, builds_reset>>]_vars

\* C16 is exercised: one teardown thread has called ProjectType.teardown_build
\* and another has gone through the body without a call
TeardownBodyRepeated ==
    \E t, u \in 1..MaxTeardowns :
       /\ teardown[t].called = 1
       /\ teardown[u].called = 0
       /\ teardown[u].pc \in {"wait_idle_executors", "notify_idle", "done"}

\* a notification `state` has been sent
Sent(state) == \E n \in 1..Len(notifications) : notifications[n].state = state

RunsDisconnect ==
    /\ shutdown.phase = "callbacks"
    /\ shutdown.stack # <<>>
    /\ shutdown.stack[Len(shutdown.stack)] = "disconnect"
    /\ Len(shutdown'.stack) = Len(shutdown.stack) - 1

\* C19: _disconnect_from_manager always sets is_alive to false; it sends
\* DISCONNECTED exactly when the probe found the manager responsive, and
\* after a failed probe it returns without sending anything and without
\* raising: the shutdown goes on with the next callback.
DisconnectSetsNotAliveAndNotifiesIfResponsive ==
    [][RunsDisconnect
          => /\ is_alive' = FALSE
             /\ shutdown'.probe = "responsive" <=> Sends("DISCONNECTED")
             /\ shutdown'.probe = "unresponsive" => notifications' = notifications
             /\ shutdown'.phase = "callbacks"
             /\ UNCHANGED <<teardown, setup, subjob, build_vars, pool_vars>>]_vars

\* C19 is exercised: the disconnect ran with the manager unresponsive
DisconnectedWithoutNotification ==
    /\ shutdown.probe = "unresponsive"
    /\ ~is_alive
    /\ ~Sent("DISCONNECTED")

\* the step is a heartbeat tick whose request ended with the given outcome
Ticks(outcome) ==
    /\ Len(heartbeat'.history) = Len(heartbeat.history) + 1
    /\ heartbeat'.history[Len(heartbeat'.history)] = outcome

\* C20: a heartbeat answered with an HTTP error status never increments the
\* failure counter and never calls kill(): the next tick stays scheduled.
\* A tick that calls kill() ended with a connection error or a timeout.
HttpErrorHeartbeatNotCounted ==
    [][/\ Ticks("http_error")
          => /\ heartbeat_failure_count' <= heartbeat_failure_count
             /\ heartbeat_failure_count' = 0
             /\ heartbeat'.kills = heartbeat.kills
             /\ heartbeat'.scheduled
             /\ UNCHANGED <<shutdown, killed, is_alive>>
       /\ heartbeat'.kills # heartbeat.kills => Ticks("transport_error")]_vars

\* C20 is exercised: an HTTP error status arrived when one more failure
\* would have reached the threshold, and the worker lives on
HttpErrorAtTheBrink ==
    /\ heartbeat_failure_threshold > 1
    /\ heartbeat.scheduled
    /\ heartbeat.kills = {}
    /\ \E n \in 1..Len(heartbeat.history) :
          /\ n >= heartbeat_failure_threshold
          /\ heartbeat.history[n] = "http_error"
          /\ \A m \in (n - heartbeat_failure_threshold + 1)..(n - 1) :
                heartbeat.history[m] = "transport_error"

\* C21: no subjob begins executing for a build whose teardown has returned
\* and cleared current_build_id: a start_working_on_subjob that passed the
\* build id check is not handed an executor after that.
NoSubjobStartsAfterBuildReset ==
    [][\A s \in SubjobIds :
          Admits(s) => subjob[s].build \notin builds_reset]_vars


\* the step is a ProjectType call of the setup thread k (lines 163, 166)
SetupCallsProjectType(k) ==
    /\ setup[k].pc \in {"fetch_project", "run_job_config_setup"}
    /\ setup'[k].pc # setup[k].pc

\* the step is the SETUP_COMPLETE notification of the setup thread k
SetupNotifiesComplete(k) ==
    /\ setup[k].pc = "notify_completed"
    /\ setup'[k].pc = "done"
    /\ Sends("SETUP_COMPLETE")

\* C22: when a teardown is accepted while the setup thread of the build is
\* still running, the setup thread never makes a ProjectType call after the
\* teardown has cleared the project type, and it sends no SETUP_COMPLETE
\* for the build after the teardown body has completed.
SetupNeverRunsPastTeardown ==
    [][\A k \in SetupIds :
          /\ SetupCallsProjectType(k) => project_type # None /\ k \notin builds_reset
          /\ SetupNotifiesComplete(k) => k \notin builds_reset]_vars

====
